---- MODULE Spec2Model ----
(***************************************************************************)
(* go-httpstat, go18.go: the Result timing state, the nine httptrace hook  *)
(* handlers installed by withClientTrace, Result.Done and the accessors    *)
(* Result.ContentTransfer / Result.Total, all serialised by the            *)
(* sync.RWMutex r.m.                                                       *)
(*                                                                         *)
(* A goroutine's position is the source line of go18.go it is about to     *)
(* execute (pc[p] = 0: not inside any operation of the package).  Every    *)
(* statement of a handler is one step, so a state between two statements   *)
(* of a critical section is a state of the model.                          *)
(*                                                                         *)
(* Instants are integers; 0 is the zero time.Time (IsZero), the clock      *)
(* time.Now() reads is `now` and starts at 1.  One unit is 10 ms.          *)
(***************************************************************************)
EXTENDS Integers, Sequences, FiniteSets

\* ---- bounds of the model ------------------------------------------------
NumProcs == 2
MaxClock == 3
MaxOps == 2
MaxSerialOps == 4
MaxScenarioClock == 8

Procs == 1..NumProcs
Horizon == IF MaxClock > MaxScenarioClock THEN MaxClock ELSE MaxScenarioClock
Instants == 1..MaxClock

VARIABLES
    r,          \* the Result: timestamps, flags, durations
    m,          \* r.m, the sync.RWMutex: [w: writer inside, readers: count]
    pc,         \* pc[p]: line of go18.go goroutine p executes next, 0 = outside
    local,      \* local[p]: arguments, locals and result of p's invocation
    now,        \* the instant time.Now() returns
    ops,        \* number of operations invoked so far
    scenario,   \* name of the scripted scenario, "free" when unscripted
    script      \* entry points the scripted caller has still to invoke

vars == <<r, m, pc, local, now, ops, scenario, script>>

\* ---- time.Time / time.Duration -------------------------------------------
\* time.Duration saturates: the distance between the zero time (year 1) and
\* any instant time.Now() can return exceeds the largest Duration (about 292
\* years), so Sub against the zero time yields the extreme Duration.
MaxDuration == 2 * Horizon + 2
MinDuration == 0 - MaxDuration

IsZero(x) == x = 0

Sub(a, b) ==
    IF a = b THEN 0
    ELSE IF IsZero(b) THEN MaxDuration
    ELSE IF IsZero(a) THEN MinDuration
    ELSE a - b

\* ---- the Result ----------------------------------------------------------
Timestamps == {"dnsStart", "dnsDone", "tcpStart", "tcpDone", "tlsStart", "tlsDone",
               "serverStart", "serverDone", "transferStart", "transferDone"}

HookDurations == {"DNSLookup", "NameLookup", "TCPConnection", "TLSHandshake",
                  "ServerProcessing", "Connect", "Pretransfer", "StartTransfer"}

DoneDurations == {"contentTransfer", "total"}

Durations == HookDurations \cup DoneDurations

Flags == {"isTLS", "isReused"}

NewResult ==
    [f \in Timestamps \cup Durations \cup Flags |->
        IF f \in Flags THEN FALSE ELSE 0]

NewLocal == [t |-> 0, reused |-> FALSE, now |-> 0, d |-> 0]

\* The last instant the model's clock reaches.
ClockBound == IF scenario \in {"free", "serial"} THEN MaxClock ELSE MaxScenarioClock

\* ---- sync.RWMutex --------------------------------------------------------
NewMutex == [w |-> FALSE, readers |-> 0]

CanLock == ~m.w /\ m.readers = 0

CanRLockNoWriterCheck == TRUE

CanRLock == ~m.w

\* A step of goroutine p from its current line to line `next`.
Goto(p, next) == pc' = [pc EXCEPT ![p] = next]

\* The locals of p after a step to `next`: on return (next = 0) the frame is
\* gone; the returned value d is last seen at the return statement.
Frame(p, next) ==
    IF next = 0 THEN [local EXCEPT ![p] = NewLocal] ELSE local

Lock(p, next) ==
    /\ CanLock
    /\ m' = [m EXCEPT !.w = TRUE]
    /\ Goto(p, next)
    /\ local' = Frame(p, next)
    /\ UNCHANGED <<r, now, ops, scenario, script>>

Unlock(p, next) ==
    /\ m' = [m EXCEPT !.w = FALSE]
    /\ Goto(p, next)
    /\ local' = Frame(p, next)
    /\ UNCHANGED <<r, now, ops, scenario, script>>

RLock(p, next) ==
    /\ CanRLock
    /\ m' = [m EXCEPT !.readers = @ + 1]
    /\ Goto(p, next)
    /\ local' = Frame(p, next)
    /\ UNCHANGED <<r, now, ops, scenario, script>>

RUnlock(p, next) ==
    /\ m' = [m EXCEPT !.readers = @ - 1]
    /\ Goto(p, next)
    /\ local' = Frame(p, next)
    /\ UNCHANGED <<r, now, ops, scenario, script>>

\* An assignment to fields of r.
Assign(p, newR, next) ==
    /\ r' = newR
    /\ Goto(p, next)
    /\ local' = Frame(p, next)
    /\ UNCHANGED <<m, now, ops, scenario, script>>

\* x = time.Now(): the clock is read and the reading stored in field f.  A
\* reading is never earlier than the previous one (`now`), by any goroutine.
AssignNow(p, f, next) ==
    /\ \E v \in now..ClockBound :
          /\ now' = v
          /\ r' = [r EXCEPT ![f] = v]
    /\ Goto(p, next)
    /\ local' = Frame(p, next)
    /\ UNCHANGED <<m, ops, scenario, script>>

\* An assignment to a local of p's invocation.
AssignLocal(p, newLocal, next) ==
    /\ local' = [local EXCEPT ![p] = newLocal]
    /\ Goto(p, next)
    /\ UNCHANGED <<r, m, now, ops, scenario, script>>

\* A branch or a return: only the position changes.
Jump(p, next) ==
    /\ Goto(p, next)
    /\ local' = Frame(p, next)
    /\ UNCHANGED <<r, m, now, ops, scenario, script>>

\* ---- Result.Done (go18.go 12-25) ------------------------------------------
DoneIsEmptyNever(s) == FALSE

DoneIsEmpty(s) == IsZero(s.dnsStart)

DoneContentTransferSinceWritten(s) == Sub(s.transferDone, s.serverStart)

DoneContentTransfer(s) == Sub(s.transferDone, s.transferStart)

DoneTotal(s) == Sub(s.transferDone, s.dnsStart)

Done(p) ==
    \/ /\ pc[p] = 13
       /\ Lock(p, 14)
    \/ /\ pc[p] = 14
       /\ Assign(p, [r EXCEPT !.transferDone = local[p].t], 18)
    \/ /\ pc[p] = 18
       /\ Jump(p, IF DoneIsEmpty(r) THEN 19 ELSE 22)
    \/ /\ pc[p] = 19                      \* return: r.m stays locked
       /\ Jump(p, 0)
    \/ /\ pc[p] = 22
       /\ Assign(p, [r EXCEPT !.contentTransfer = DoneContentTransfer(r)], 23)
    \/ /\ pc[p] = 23
       /\ Assign(p, [r EXCEPT !.total = DoneTotal(r)], 24)
    \/ /\ pc[p] = 24
       /\ Unlock(p, 0)

\* ---- Result.ContentTransfer, Result.Total (go18.go 30-45) ----------------
ContentTransferAtSinceWritten(s, t) == Sub(t, s.serverStart)

ContentTransferAt(s, t) == Sub(t, s.serverDone)

TotalAt(s, t) == Sub(t, s.dnsStart)

ContentTransfer(p) ==
    \/ /\ pc[p] = 31
       /\ RLock(p, 32)
    \/ /\ pc[p] = 32
       /\ AssignLocal(p, [local[p] EXCEPT !.d = ContentTransferAt(r, local[p].t)], 33)
    \/ /\ pc[p] = 33
       /\ RUnlock(p, 34)
    \/ /\ pc[p] = 34
       /\ Jump(p, 0)

Total(p) ==
    \/ /\ pc[p] = 41
       /\ RLock(p, 42)
    \/ /\ pc[p] = 42
       /\ AssignLocal(p, [local[p] EXCEPT !.d = TotalAt(r, local[p].t)], 43)
    \/ /\ pc[p] = 43
       /\ RUnlock(p, 44)
    \/ /\ pc[p] = 44
       /\ Jump(p, 0)

\* ---- the hooks of withClientTrace (go18.go 47-157) -----------------------
DNSStart(p) ==
    \/ /\ pc[p] = 50
       /\ Lock(p, 51)
    \/ /\ pc[p] = 51
       /\ AssignNow(p, "dnsStart", 52)
    \/ /\ pc[p] = 52
       /\ Unlock(p, 0)

DNSDoneLookup(s) == Sub(s.dnsDone, s.dnsStart)

DNSDone(p) ==
    \/ /\ pc[p] = 56
       /\ Lock(p, 57)
    \/ /\ pc[p] = 57
       /\ AssignNow(p, "dnsDone", 59)
    \/ /\ pc[p] = 59
       /\ Assign(p, [r EXCEPT !.DNSLookup = DNSDoneLookup(r)], 60)
    \/ /\ pc[p] = 60
       /\ Assign(p, [r EXCEPT !.NameLookup = DNSDoneLookup(r)], 61)
    \/ /\ pc[p] = 61
       /\ Unlock(p, 0)

ConnectStartNoDNSAlways(s) == TRUE

ConnectStartNoDNSNever(s) == FALSE

ConnectStartNoDNS(s) == IsZero(s.dnsStart)

ConnectStart(p) ==
    \/ /\ pc[p] = 65
       /\ Lock(p, 66)
    \/ /\ pc[p] = 66
       /\ AssignNow(p, "tcpStart", 69)
    \/ /\ pc[p] = 69
       /\ Jump(p, IF ConnectStartNoDNS(r) THEN 70 ELSE 73)
    \/ /\ pc[p] = 70
       /\ Assign(p, [r EXCEPT !.dnsStart = r.tcpStart], 71)
    \/ /\ pc[p] = 71
       /\ Assign(p, [r EXCEPT !.dnsDone = r.tcpStart], 73)
    \/ /\ pc[p] = 73
       /\ Unlock(p, 0)

ConnectDoneTCPConnection(s) == Sub(s.tcpDone, s.tcpStart)

ConnectDoneConnectSwapped(s) == Sub(s.dnsStart, s.tcpDone)

ConnectDoneConnect(s) == Sub(s.tcpDone, s.dnsStart)

ConnectDone(p) ==
    \/ /\ pc[p] = 77
       /\ Lock(p, 78)
    \/ /\ pc[p] = 78
       /\ AssignNow(p, "tcpDone", 80)
    \/ /\ pc[p] = 80
       /\ Assign(p, [r EXCEPT !.TCPConnection = ConnectDoneTCPConnection(r)], 81)
    \/ /\ pc[p] = 81
       /\ Assign(p, [r EXCEPT !.Connect = ConnectDoneConnect(r)], 82)
    \/ /\ pc[p] = 82
       /\ Unlock(p, 0)

TLSHandshakeStart(p) ==
    \/ /\ pc[p] = 86
       /\ Lock(p, 87)
    \/ /\ pc[p] = 87
       /\ Assign(p, [r EXCEPT !.isTLS = TRUE], 88)
    \/ /\ pc[p] = 88
       /\ AssignNow(p, "tlsStart", 89)
    \/ /\ pc[p] = 89
       /\ Unlock(p, 0)

TLSDoneHandshake(s) == Sub(s.tlsDone, s.tlsStart)

TLSDonePretransfer(s) == Sub(s.tlsDone, s.dnsStart)

TLSHandshakeDone(p) ==
    \/ /\ pc[p] = 93
       /\ Lock(p, 94)
    \/ /\ pc[p] = 94
       /\ AssignNow(p, "tlsDone", 96)
    \/ /\ pc[p] = 96
       /\ Assign(p, [r EXCEPT !.TLSHandshake = TLSDoneHandshake(r)], 97)
    \/ /\ pc[p] = 97
       /\ Assign(p, [r EXCEPT !.Pretransfer = TLSDonePretransfer(r)], 98)
    \/ /\ pc[p] = 98
       /\ Unlock(p, 0)

GotConn(p) ==
    \/ /\ pc[p] = 104
       /\ Jump(p, IF local[p].reused THEN 105 ELSE 0)
    \/ /\ pc[p] = 105
       /\ Lock(p, 106)
    \/ /\ pc[p] = 106
       /\ Assign(p, [r EXCEPT !.isReused = TRUE], 107)
    \/ /\ pc[p] = 107
       /\ Unlock(p, 0)

WroteRequestNoHooks(s) == IsZero(s.dnsStart) /\ IsZero(s.tcpStart)

WroteRequestPlainHandshake(s) == Sub(s.tcpDone, s.tcpDone)

WroteRequestPlainPretransferTCP(s) == s.TCPConnection

WroteRequestPlainPretransfer(s) == s.Connect

WroteRequest(p) ==
    \/ /\ pc[p] = 112
       /\ Lock(p, 113)
    \/ /\ pc[p] = 113
       /\ AssignNow(p, "serverStart", 117)
    \/ /\ pc[p] = 117
       /\ Jump(p, IF WroteRequestNoHooks(r) THEN 118 ELSE 127)
    \/ /\ pc[p] = 118
       /\ AssignLocal(p, [local[p] EXCEPT !.now = r.serverStart], 120)
    \/ /\ pc[p] = 120
       /\ Assign(p, [r EXCEPT !.dnsStart = local[p].now], 121)
    \/ /\ pc[p] = 121
       /\ Assign(p, [r EXCEPT !.dnsDone = local[p].now], 122)
    \/ /\ pc[p] = 122
       /\ Assign(p, [r EXCEPT !.tcpStart = local[p].now], 123)
    \/ /\ pc[p] = 123
       /\ Assign(p, [r EXCEPT !.tcpDone = local[p].now], 127)
    \/ /\ pc[p] = 127
       /\ Jump(p, IF r.isReused THEN 128 ELSE 138)
    \/ /\ pc[p] = 128
       /\ AssignLocal(p, [local[p] EXCEPT !.now = r.serverStart], 130)
    \/ /\ pc[p] = 130
       /\ Assign(p, [r EXCEPT !.dnsStart = local[p].now], 131)
    \/ /\ pc[p] = 131
       /\ Assign(p, [r EXCEPT !.dnsDone = local[p].now], 132)
    \/ /\ pc[p] = 132
       /\ Assign(p, [r EXCEPT !.tcpStart = local[p].now], 133)
    \/ /\ pc[p] = 133
       /\ Assign(p, [r EXCEPT !.tcpDone = local[p].now], 134)
    \/ /\ pc[p] = 134
       /\ Assign(p, [r EXCEPT !.tlsStart = local[p].now], 135)
    \/ /\ pc[p] = 135
       /\ Assign(p, [r EXCEPT !.tlsDone = local[p].now], 138)
    \/ /\ pc[p] = 138
       /\ Jump(p, IF ~r.isTLS THEN 139 ELSE 143)
    \/ /\ pc[p] = 139
       /\ Assign(p, [r EXCEPT !.TLSHandshake = WroteRequestPlainHandshake(r)], 140)
    \/ /\ pc[p] = 140
       /\ Assign(p, [r EXCEPT !.Pretransfer = WroteRequestPlainPretransfer(r)], 143)
    \/ /\ pc[p] = 143
       /\ Unlock(p, 0)

FirstByteServerProcessingSwapped(s) == Sub(s.serverStart, s.serverDone)

FirstByteServerProcessing(s) == Sub(s.serverDone, s.serverStart)

FirstByteStartTransfer(s) == Sub(s.serverDone, s.dnsStart)

GotFirstResponseByte(p) ==
    \/ /\ pc[p] = 147
       /\ Lock(p, 148)
    \/ /\ pc[p] = 148
       /\ AssignNow(p, "serverDone", 150)
    \/ /\ pc[p] = 150
       /\ Assign(p, [r EXCEPT !.ServerProcessing = FirstByteServerProcessing(r)], 151)
    \/ /\ pc[p] = 151
       /\ Assign(p, [r EXCEPT !.StartTransfer = FirstByteStartTransfer(r)], 153)
    \/ /\ pc[p] = 153
       /\ Assign(p, [r EXCEPT !.transferStart = r.serverDone], 154)
    \/ /\ pc[p] = 154
       /\ Unlock(p, 0)

\* ---- the callers: the transport firing hooks, the client code -------------
\* Entry lines of the operations and the inputs each takes.
HookEntries == {50, 56, 65, 77, 86, 93, 112, 147}

TimedEntries == {13, 31, 41}

Invocations ==
    {[line |-> l, t |-> 0, reused |-> FALSE] : l \in HookEntries}
    \cup {[line |-> 104, t |-> 0, reused |-> b] : b \in BOOLEAN}
    \cup {[line |-> l, t |-> x, reused |-> FALSE] : l \in TimedEntries, x \in Instants}

\* Goroutines are anonymous: a new invocation runs on the idle goroutine of
\* least index.
EnterWith(p, inv) ==
    /\ pc[p] = 0
    /\ \A q \in Procs : q < p => pc[q] # 0
    /\ pc' = [pc EXCEPT ![p] = inv.line]
    /\ local' = [local EXCEPT ![p] = [NewLocal EXCEPT !.t = inv.t, !.reused = inv.reused]]
    /\ ops' = ops + 1

\* Any goroutine invokes any operation with any input, at any time.
Call(p) ==
    /\ scenario = "free"
    /\ ops < MaxOps
    /\ \E inv \in Invocations : EnterWith(p, inv)
    /\ UNCHANGED <<r, m, now, scenario, script>>

\* The scripted caller (goroutine 1) invokes the next entry point of its
\* script once the previous one has returned; Done and the accessors get the
\* current instant, as in res.Done(time.Now()).
ScriptCall ==
    /\ scenario # "free"
    /\ script # <<>>
    /\ \E v \in now..ClockBound :
          /\ now' = IF Head(script).line \in TimedEntries THEN v ELSE now
          /\ EnterWith(1, [line |-> Head(script).line,
                           t |-> IF Head(script).line \in TimedEntries THEN v ELSE 0,
                           reused |-> Head(script).reused])
    /\ script' = Tail(script)
    /\ UNCHANGED <<r, m, scenario>>

\* A step of a reader (accessor) / of a writer (hook handler or Done).
ReaderStep(p) ==
    \/ ContentTransfer(p)
    \/ Total(p)

WriterStep(p) ==
    \/ Done(p)
    \/ DNSStart(p)
    \/ DNSDone(p)
    \/ ConnectStart(p)
    \/ ConnectDone(p)
    \/ TLSHandshakeStart(p)
    \/ TLSHandshakeDone(p)
    \/ GotConn(p)
    \/ WroteRequest(p)
    \/ GotFirstResponseByte(p)

Step(p) == WriterStep(p) \/ ReaderStep(p)

InitState ==
    /\ r = NewResult
    /\ m = NewMutex
    /\ pc = [p \in Procs |-> 0]
    /\ local = [p \in Procs |-> NewLocal]
    /\ now = 1
    /\ ops = 0

Init ==
    /\ InitState
    /\ scenario = "free"
    /\ script = <<>>

Next ==
    \/ \E p \in Procs : Call(p)
    \/ \E p \in Procs : Step(p)

Spec == Init /\ [][Next]_vars

\* ---- one goroutine at a time ---------------------------------------------
\* The hooks and Done invoked one after the other, each after the previous
\* one returned, in any order (the accessors write nothing and are left out).
SerialCall ==
    /\ scenario = "serial"
    /\ ops < MaxSerialOps
    /\ \E inv \in {i \in Invocations : i.line \notin {31, 41}} : EnterWith(1, inv)
    /\ UNCHANGED <<r, m, now, scenario, script>>

SerialInit ==
    /\ InitState
    /\ scenario = "serial"
    /\ script = <<>>

SerialNext ==
    \/ SerialCall
    \/ \E p \in Procs : WriterStep(p)

Serial == SerialInit /\ [][SerialNext]_vars

\* ---- scripted scenarios --------------------------------------------------
E(l) == [line |-> l, reused |-> FALSE]

Scripts ==
    [ endToEnd |-> <<E(50), E(56), E(65), E(77), E(112), E(147), E(13)>>,
      reusedConn |-> <<[line |-> 104, reused |-> TRUE], E(112), E(147), E(13)>>,
      noDNS |-> <<E(65), E(77), E(112), E(147), E(13)>>,
      https |-> <<E(50), E(56), E(65), E(77), E(86), E(93), E(104), E(112),
                  E(147), E(31), E(41), E(13)>>,
      customDial |-> <<E(86), E(93), E(104), E(112), E(147), E(13)>>,
      lateDial |-> <<E(50), E(56), E(65), [line |-> 104, reused |-> TRUE], E(112),
                     E(77), E(147), E(13)>>,
      empty |-> <<E(13), E(41)>> ]

ScenarioInit ==
    /\ InitState
    /\ scenario \in DOMAIN Scripts
    /\ script = Scripts[scenario]

ScenarioNext ==
    \/ ScriptCall
    \/ \E p \in Procs : Step(p)

Scenario == ScenarioInit /\ [][ScenarioNext]_vars

\* ---- fairness: every goroutine inside an operation keeps running ----------
\* The Go scheduler runs every runnable goroutine, and sync.RWMutex hands the
\* lock to a waiting goroutine once it is free (strong fairness of the step).
FairSpec == Spec /\ \A p \in Procs : SF_vars(Step(p))

\* ---- positions -----------------------------------------------------------
Idle == \A p \in Procs : pc[p] = 0

\* Lines at which a goroutine holds r.m exclusively / shared.
WriterLines ==
    {14, 18, 19, 22, 23, 24} \cup 51..52 \cup 57..61 \cup 66..73 \cup 78..82
    \cup 87..89 \cup 94..98 \cup 106..107 \cup 113..143 \cup 148..154

ReaderLines == {32, 33, 42, 43}

AccessorLines == 31..34 \cup 41..44

InWriter(p) == pc[p] \in WriterLines

InReader(p) == pc[p] \in ReaderLines

\* ---- C1 -------------------------------------------------------------------
\* C1: whenever no operation is in progress, r.m is held neither exclusively
\* nor shared (every operation released the lock before it returned).
C1_LockFreeWhenIdle == Idle => (~m.w /\ m.readers = 0)

\* ---- C2 -------------------------------------------------------------------
\* C2: a call of ContentTransfer or Total, made in any state, eventually
\* returns, given that every goroutine inside an operation keeps running.
C2_AccessorsReturn ==
    \A p \in Procs : (pc[p] \in {31, 41}) ~> (pc[p] = 0)

\* ---- C3 -------------------------------------------------------------------
\* The instant of the last hook event: the latest timestamp a hook wrote.
Max(S) == CHOOSE x \in S : \A y \in S : y <= x

LastEvent(s) == Max({s[f] : f \in Timestamps \ {"transferDone"}})

\* C3: with a clock that never goes back, every duration the hooks store is
\* >= 0 in every state, and when Done(t) with t not earlier than the last
\* event has computed contentTransfer and total, these are >= 0 too.
C3_NonNegative ==
    /\ \A f \in HookDurations : r[f] >= 0
    /\ \A p \in Procs :
          (pc[p] = 24 /\ r.transferDone >= LastEvent(r))
              => (r.contentTransfer >= 0 /\ r.total >= 0)

C3_Witness ==
    /\ pc[1] = 24
    /\ r.transferDone >= LastEvent(r)
    /\ r.total > 0 /\ r.total < MaxDuration
    /\ r.Connect > 0 /\ r.Connect < MaxDuration

\* ---- C4 -------------------------------------------------------------------
\* C4: a duration one of whose two timestamps is unset reads 0.  A timestamp
\* once set is never unset, so a subtrahend unset now was unset when the
\* duration was computed; the accessors' results are read at their RUnlock.
C4_UnsetReadsZero ==
    /\ IsZero(r.dnsStart) =>
          /\ r.DNSLookup = 0 /\ r.NameLookup = 0 /\ r.Connect = 0
          /\ r.Pretransfer = 0 /\ r.StartTransfer = 0 /\ r.total = 0
    /\ IsZero(r.tcpStart) => r.TCPConnection = 0
    /\ IsZero(r.tlsStart) => r.TLSHandshake = 0
    /\ IsZero(r.serverStart) => r.ServerProcessing = 0
    /\ IsZero(r.transferStart) => r.contentTransfer = 0
    /\ \A p \in Procs :
          /\ (pc[p] = 33 /\ IsZero(r.serverDone)) => local[p].d = 0
          /\ (pc[p] = 43 /\ IsZero(r.dnsStart)) => local[p].d = 0

\* ---- C5 -------------------------------------------------------------------
\* C5: while dnsStart is unset, contentTransfer and total are 0, and the
\* statements Done executes on that path change nothing of r but
\* transferDone, which line 14 sets to the argument.
C5_EmptyResult ==
    /\ [](IsZero(r.dnsStart) => (r.contentTransfer = 0 /\ r.total = 0))
    /\ [][\A p \in Procs :
            (pc[p] \in {14, 18, 19} /\ pc'[p] # pc[p] /\ IsZero(r.dnsStart))
                => /\ r' = [r EXCEPT !.transferDone =
                                IF pc[p] = 14 THEN local[p].t ELSE @]
                   /\ pc[p] = 18 => pc'[p] = 19]_vars

C5_Witness ==
    /\ pc[1] = 19
    /\ r.transferDone > 0
    /\ r = [NewResult EXCEPT !.transferDone = r.transferDone]

\* ---- C6 -------------------------------------------------------------------
Canonical == <<"dnsStart", "dnsDone", "tcpStart", "tcpDone", "tlsStart", "tlsDone",
               "serverStart", "serverDone", "transferStart", "transferDone">>

Ordered(s) ==
    \A i \in 1..Len(Canonical) : \A j \in i..Len(Canonical) :
        (~IsZero(s[Canonical[i]]) /\ ~IsZero(s[Canonical[j]]))
            => s[Canonical[i]] <= s[Canonical[j]]

\* C6: after any sequence of hook events (no operation in progress), the
\* timestamps that are set are in the canonical order, backfills included.
C6_TimestampOrder == Idle => Ordered(r)

\* ---- C7 -------------------------------------------------------------------
\* C7: at most one goroutine is inside an exclusive critical section, none
\* while a reader is inside its shared one, and an accessor's result is the
\* value computed from r while no writer is between two of its statements.
C7_NoTornRead ==
    /\ Cardinality({p \in Procs : InWriter(p)}) <= 1
    /\ \A p, q \in Procs : ~(InWriter(p) /\ InReader(q))
    /\ \A p \in Procs :
          /\ pc[p] = 33 => (local[p].d = ContentTransferAt(r, local[p].t)
                            /\ \A q \in Procs : ~InWriter(q))
          /\ pc[p] = 43 => (local[p].d = TotalAt(r, local[p].t)
                            /\ \A q \in Procs : ~InWriter(q))

\* A hook is blocked at its Lock while a reader holds a computed result.
C7_Witness ==
    \E p, q \in Procs :
        /\ pc[p] \in {33, 43}
        /\ pc[q] \in {50, 56, 65, 77, 86, 93, 105, 112, 147, 13}

\* ---- C8 -------------------------------------------------------------------
\* C8: ContentTransfer(t) yields t.Sub(serverDone) and Total(t) yields
\* t.Sub(dnsStart) of the state they read; no statement of an accessor
\* changes r; two calls with the same t reading the same state agree.
C8_SnapshotReads ==
    /\ [](\A p \in Procs :
            /\ pc[p] = 33 => local[p].d = Sub(local[p].t, r.serverDone)
            /\ pc[p] = 43 => local[p].d = Sub(local[p].t, r.dnsStart))
    /\ [](\A p, q \in Procs :
            (pc[p] = pc[q] /\ pc[p] \in {33, 43} /\ local[p].t = local[q].t)
                => local[p].d = local[q].d)
    /\ [][\A p \in Procs :
            (pc[p] \in AccessorLines /\ pc'[p] # pc[p]) => r' = r]_vars

C8_Witness ==
    \E p \in Procs :
        /\ pc[p] = 33
        /\ ~IsZero(r.serverDone)
        /\ local[p].d > 0

\* ---- C9 -------------------------------------------------------------------
\* C9: DNS start @0, DNS done @10ms, connect start @10ms, connect done @30ms,
\* request written @30ms, no TLS, first byte @50ms, Done @70ms (instant 1 is
\* 0 ms, one unit is 10 ms) ends with the durations of the specification.
EndToEndTimes ==
    /\ r.dnsStart = 1 /\ r.dnsDone = 2
    /\ r.tcpStart = 2 /\ r.tcpDone = 4
    /\ r.serverStart = 4 /\ r.serverDone = 6
    /\ r.transferDone = 8

Finished(name) == scenario = name /\ script = <<>> /\ Idle

C9_EndToEnd ==
    (Finished("endToEnd") /\ EndToEndTimes) =>
        /\ r.DNSLookup = 1 /\ r.TCPConnection = 2 /\ r.Connect = 3
        /\ r.TLSHandshake = 0 /\ r.Pretransfer = 3
        /\ r.ServerProcessing = 2 /\ r.StartTransfer = 5
        /\ r.contentTransfer = 2 /\ r.total = 7

C9_Witness == Finished("endToEnd") /\ EndToEndTimes /\ ~m.w

\* ---- C10 ------------------------------------------------------------------
\* C10: connection obtained with reuse, request written, first byte strictly
\* later, Done: the three setup durations are 0 and ServerProcessing > 0.
C10_ReusedConnection ==
    (Finished("reusedConn") /\ r.serverDone > r.serverStart) =>
        /\ r.DNSLookup = 0 /\ r.TCPConnection = 0 /\ r.TLSHandshake = 0
        /\ r.ServerProcessing > 0

C10_Witness ==
    /\ Finished("reusedConn")
    /\ r.serverDone > r.serverStart
    /\ r.isReused
    /\ r.total > 0

\* ---- C11 ------------------------------------------------------------------
\* The scripted caller has invoked the entry at `line` of its script and no
\* goroutine is inside the lines first..last of that operation any more.
Returned(name, left, first, last) ==
    /\ scenario = name
    /\ Len(script) <= left
    /\ \A p \in Procs : pc[p] \notin first..last

\* C11: connect start without DNS start backfills dnsStart and dnsDone to
\* tcpStart, so once connect done has returned DNSLookup = 0 and
\* Connect = TCPConnection, whatever the instants of the events.
C11_NoDNS ==
    Returned("noDNS", 3, 77, 82) =>
        /\ r.dnsStart = r.tcpStart /\ r.dnsDone = r.tcpStart
        /\ r.DNSLookup = 0
        /\ r.Connect = r.TCPConnection

C11_Witness ==
    /\ Returned("noDNS", 3, 77, 82)
    /\ Len(script) = 3
    /\ r.Connect > 0 /\ r.Connect < MaxDuration

\* ---- C12 ------------------------------------------------------------------
\* The request-written handler has run to its end.
WroteRequestReturned ==
    /\ ~IsZero(r.serverStart)
    /\ \A p \in Procs : pc[p] \notin 112..143

\* C12: when no TLS-start hook fired, from the return of request written on
\* (through first byte and Done) TLSHandshake = 0 and Pretransfer = Connect
\* in every state between two operations.
C12_Plaintext ==
    (~r.isTLS /\ WroteRequestReturned /\ Idle) =>
        (r.TLSHandshake = 0 /\ r.Pretransfer = r.Connect)

\* ---- C13 ------------------------------------------------------------------
HookStamps == 1..(Len(Canonical) - 1)

\* C13 (as claimed): every hook backfills each unset timestamp of an earlier
\* phase, so between two operations no timestamp of an earlier phase is unset
\* while one of a later phase is set.
C13_BackfillEveryPredecessor ==
    Idle => \A j \in HookStamps : \A i \in 1..j :
                ~IsZero(r[Canonical[j]]) => ~IsZero(r[Canonical[i]])

\* The statement that writes each timestamp of its own phase.
OwnLine ==
    [dnsStart |-> 51, dnsDone |-> 57, tcpStart |-> 66, tcpDone |-> 78,
     tlsStart |-> 88, tlsDone |-> 94, serverStart |-> 113, serverDone |-> 148,
     transferStart |-> 153, transferDone |-> 14]

DialStamps == {"dnsStart", "dnsDone", "tcpStart", "tcpDone"}

SetupStamps == DialStamps \cup {"tlsStart", "tlsDone"}

\* C13 (amended): only connect start and request written backfill.  Connect
\* start sets dnsStart = dnsDone = tcpStart exactly when dnsStart is unset;
\* request written sets the four DNS/connect timestamps to serverStart
\* exactly when dnsStart and tcpStart are both unset, and all six setup
\* timestamps to serverStart exactly when isReused; every other statement
\* writes the timestamp of its own phase only.
C13_BackfillRule ==
    /\ [][\A p \in Procs : pc'[p] # pc[p] =>
            /\ \A f \in Timestamps : r'[f] # r[f] =>
                  \/ pc[p] = OwnLine[f]
                  \/ pc[p] \in {70, 71} /\ f \in {"dnsStart", "dnsDone"}
                        /\ r'[f] = r.tcpStart
                  \/ pc[p] \in 120..123 /\ f \in DialStamps
                        /\ r'[f] = r.serverStart
                  \/ pc[p] \in 130..135 /\ f \in SetupStamps
                        /\ r'[f] = r.serverStart
            /\ pc[p] = 69 => (pc'[p] = 70 <=> IsZero(r.dnsStart))
            /\ pc[p] = 117 =>
                  (pc'[p] = 118 <=> (IsZero(r.dnsStart) /\ IsZero(r.tcpStart)))
            /\ pc[p] = 127 => (pc'[p] = 128 <=> r.isReused)]_vars
    /\ [](\A p \in Procs :
            /\ pc[p] = 73 => (~IsZero(r.dnsStart) /\ ~IsZero(r.tcpStart))
            /\ pc[p] = 143 =>
                  /\ ~IsZero(r.dnsStart) \/ ~IsZero(r.tcpStart)
                  /\ r.isReused => \A f \in SetupStamps : r[f] = r.serverStart)

\* Request written backfilled DNS and connect and left the TLS phase unset.
C13_Witness ==
    /\ pc[1] = 143
    /\ ~r.isReused
    /\ \A f \in DialStamps : r[f] = r.serverStart
    /\ IsZero(r.tlsStart) /\ IsZero(r.tlsDone)

\* ---- C14 ------------------------------------------------------------------
\* C14: the DNS-start hook firing while dnsStart is already set leaves
\* dnsStart at its earlier value.
C14_DNSStartFirstWriteWins ==
    [][\A p \in Procs :
        (pc[p] = 51 /\ pc'[p] = 52 /\ ~IsZero(r.dnsStart))
            => r'.dnsStart = r.dnsStart]_vars

\* ---- C15 ------------------------------------------------------------------
\* C15: when request written has run with isReused set (it is at its
\* Unlock), the six setup timestamps equal serverStart and the five stored
\* setup durations are 0, whatever hooks fired before.
C15_ReuseCollapses ==
    \A p \in Procs : (pc[p] = 143 /\ r.isReused) =>
        /\ \A f \in SetupStamps : r[f] = r.serverStart
        /\ r.DNSLookup = 0 /\ r.TCPConnection = 0 /\ r.TLSHandshake = 0
        /\ r.Connect = 0 /\ r.Pretransfer = 0

\* ---- C16 ------------------------------------------------------------------
\* C16: when Done(t) has computed its durations (dnsStart set, it is at its
\* Unlock), contentTransfer = transferDone - transferStart and
\* total = transferDone - dnsStart, and they equal what ContentTransfer(t)
\* and Total(t) compute from that state.
C16_DoneAgreesWithAccessors ==
    \A p \in Procs : pc[p] = 24 =>
        /\ r.transferDone = local[p].t
        /\ r.contentTransfer = Sub(r.transferDone, r.transferStart)
        /\ r.total = Sub(r.transferDone, r.dnsStart)
        /\ r.contentTransfer = ContentTransferAt(r, local[p].t)
        /\ r.total = TotalAt(r, local[p].t)

C16_Witness ==
    /\ pc[1] = 24
    /\ ~IsZero(r.serverDone)
    /\ r.contentTransfer > 0 /\ r.contentTransfer < MaxDuration
    /\ r.total > r.contentTransfer /\ r.total < MaxDuration

\* ---- C17 ------------------------------------------------------------------
\* The skip combinations the claim names: full dial, no DNS, plaintext, TLS,
\* reused connection without and with hooks of a dial.
NamedCombinations == {"endToEnd", "noDNS", "https", "reusedConn", "lateDial"}

\* C17: in the final state of a request that wrote its request, got its
\* first byte and was finished by Done,
\* Connect <= Pretransfer <= StartTransfer <= total.
C17_CumulativeMonotone ==
    (scenario \in NamedCombinations /\ script = <<>> /\ Idle
        /\ ~IsZero(r.serverStart) /\ ~IsZero(r.serverDone)
        /\ ~IsZero(r.transferDone)) =>
        /\ r.Connect <= r.Pretransfer
        /\ r.Pretransfer <= r.StartTransfer
        /\ r.StartTransfer <= r.total

\* ---- C18 ------------------------------------------------------------------
\* C18: when Done(t), t not earlier than the last event, has computed its
\* durations after a first byte that was measured from a set dnsStart,
\* total = StartTransfer + contentTransfer, whatever fired before the first
\* byte and between it and Done.
C18_TotalDecomposes ==
    \A p \in Procs :
        (pc[p] = 24 /\ ~IsZero(r.serverDone) /\ r.StartTransfer < MaxDuration
            /\ r.transferDone >= LastEvent(r))
            => r.total = r.StartTransfer + r.contentTransfer

====
